---- MODULE Spec2Model ----
(***************************************************************************)
(* Model of src/server.js: the GET /api/ai-tools-videos handler (three     *)
(* sequential upstream calls, two in-memory filter passes) and the         *)
(* parseDuration helper.                                                   *)
(*                                                                         *)
(* Conventions                                                             *)
(*  - A JavaScript string that the code inspects character by character    *)
(*    (a duration token) is a sequence of one-character strings.           *)
(*  - Instants are integer clock ticks; an hour is Hour ticks.  The host   *)
(*    is taken to run at a fixed UTC offset, so Date.setHours(getHours()   *)
(*    - n) moves the instant back by exactly n hours, and the wall clock   *)
(*    never steps backwards.                                               *)
(*  - Query parameters arrive as strings; the numeric ones are modelled by *)
(*    the number the comparison operators convert them to, Unset standing  *)
(*    for a parameter that is absent from the query string.                *)
(***************************************************************************)
EXTENDS Integers, Sequences, FiniteSets, TLC

\* ------------------------------------------------------------------ bounds

\* Longest duration token enumerated exhaustively for parseDuration.
MaxLen == 6
\* Most items in one video-details response.
MaxItems == 2
\* Most items in one search response.
MaxSearchItems == 2
\* Number of ticks the clock may advance while requests are in flight.
MaxTicks == 1
\* Clock ticks per hour.
Hour == 2

\* ------------------------------------------------------- program constants

\* maxDuration = 1200 (default of the query parameter).
DefaultMaxDuration == 1200
\* minSubscribers = 1000 (default of the query parameter).
DefaultMinSubscribers == 1000

\* --------------------------------------------------------- JavaScript values

\* A query parameter that is absent (destructuring then applies the default).
Unset == 0 - 1
\* parseInt of a string with no leading digits.
NaN == 0 - 2
\* The time value of an Invalid Date (new Date(undefined), new Date("junk")).
InvalidDate == 0 - 3
\* parseDuration's "could not parse" result, JavaScript null.
Null == 0 - 4
\* The duration argument null / undefined: not a string at all.
NullDuration == <<"null">>
\* A field that is absent from an upstream JSON object (undefined).
Absent == "undefined"
\* JSON null in a response body.
JsonNull == "null"

VARIABLES
    now,            \* the wall clock, in ticks
    pc,             \* per request: where the async handler is suspended
    query,          \* per request: req.query
    started,        \* per request: clock reading when the handler ran line 45
    searchData,     \* per request: searchResponse.data
    detailItems,    \* per request: videoDetailsResponse.data.items
    processedAt,    \* per request: clock reading of the forEach pass (line 101)
    filteredVideos, \* per request: filteredVideos
    channelIds,     \* per request: channelIds
    channelData,    \* per request: channelsResponse.data.items as id -> count
    responses,      \* per request: the responses written to res, in order
    log,            \* per request: upstream calls issued/settled and responses
    parseIn,        \* argument handed to parseDuration
    parseOut        \* <<>> until parseDuration(parseIn) returned, then <<result>>

vars == <<now, pc, query, started, searchData, detailItems, processedAt,
          filteredVideos, channelIds, channelData, responses, log,
          parseIn, parseOut>>

\* ------------------------------------------------------------ parseDuration

Digits == {"0", "1", "2", "3", "4", "5", "6", "7", "8", "9"}

DigitChars == <<"0", "1", "2", "3", "4", "5", "6", "7", "8", "9">>

DigitVal(c) == (CHOOSE i \in 1..10 : DigitChars[i] = c) - 1

\* parseInt(s, 10) of a non-empty run of decimal digits d[from..to].
RECURSIVE ParseIntRun(_, _, _)
ParseIntRun(d, from, to) ==
    IF to < from THEN 0
    ELSE 10 * ParseIntRun(d, from, to - 1) + DigitVal(d[to])

\* Length of the longest run of digits of d starting at position p (\d+ is greedy).
RECURSIVE DigitRun(_, _)
DigitRun(d, p) ==
    IF p <= Len(d) /\ d[p] \in Digits THEN 1 + DigitRun(d, p + 1) ELSE 0

\* One optional group (?:(\d+)X)? tried at position p: the captured number and
\* the position after the group, or 0 and p when the group does not take part
\* (match[i] is then undefined and `match[i] || 0` is 0).
Group(d, p, unit) ==
    LET k == DigitRun(d, p) IN
    IF k >= 1 /\ p + k <= Len(d) /\ d[p + k] = unit
    THEN [value |-> ParseIntRun(d, p, p + k - 1), next |-> p + k + 1]
    ELSE [value |-> 0, next |-> p]

\* The three optional groups H, M, S in that order, starting at position p.
Components(d, p) ==
    LET h == Group(d, p, "H")
        m == Group(d, h.next, "M")
        s == Group(d, m.next, "S")
    IN [seconds |-> h.value * 3600 + m.value * 60 + s.value, next |-> s.next]

\* Positions where the literal "PT" occurs in d.
PTPositions(d) == {i \in 1..(Len(d) - 1) : d[i] = "P" /\ d[i + 1] = "T"}

Min(S) == CHOOSE x \in S : \A y \in S : x <= y

\* String.prototype.match with the unanchored regex
\* /PT(?:(\d+)H)?(?:(\d+)M)?(?:(\d+)S)?/ : the leftmost "PT" matches, since
\* everything after it is optional.
MatchAnywhere(d) ==
    IF PTPositions(d) = {} THEN Null
    ELSE Components(d, Min(PTPositions(d)) + 2).seconds

\* function parseDuration(duration)
parseDuration(duration) ==
    IF duration = NullDuration \/ duration = <<>> THEN Null
    ELSE MatchAnywhere(duration)

\* ------------------------------------------------------------ input domains

\* Clock reading in the initial state.
StartTime == 2 * Hour

\* Several requests are in flight at once.  The inputs of each request are
\* then drawn from narrower sets, which still take every return path and every
\* failure path of the handler; the data-dependent properties are checked with
\* one request and the full sets.
Concurrent == Cardinality(DOMAIN pc) > 1

\* Duration tokens the upstream puts on videos.
PT1M  == <<"P", "T", "1", "M">>
PT20M == <<"P", "T", "2", "0", "M">>
PT21M == <<"P", "T", "2", "1", "M">>
P1D   == <<"P", "1", "D">>

\* req.query.  maxDuration and minSubscribers: absent or a number; lastHours:
\* absent, a number of hours, or a string parseInt cannot read ("abc").
Queries ==
    IF Concurrent
    THEN [maxDuration : {Unset}, minSubscribers : {Unset}, lastHours : {Unset, NaN}]
    ELSE [maxDuration : {Unset, 60}, minSubscribers : {Unset, 0},
          lastHours : {Unset, 1, NaN}]

SeqsUpTo(S, n) == UNION {[1..k -> S] : k \in 0..n}

\* searchResponse.data: items (each item.id.videoId; one response holds a
\* single item without an id), the page token of the next page (absent on the
\* last page) and pageInfo.
SearchResponses ==
    {[items |-> ids, nextPageToken |-> tok,
      pageInfo |-> [totalResults |-> 100 * Len(ids), resultsPerPage |-> Len(ids)]] :
        ids \in SeqsUpTo({"vid"}, IF Concurrent THEN 1 ELSE MaxSearchItems)
                  \cup {<<Absent>>},
        tok \in {Absent, "CAUQAA"}}

\* One item of videoDetailsResponse.data.items.  `missing` names the one
\* sub-object the upstream left out of the item, if any.
Video(missing, duration, publishedAt, channelId) ==
    [missing |-> missing, duration |-> duration,
     publishedAt |-> publishedAt, channelId |-> channelId]

MissingParts == {"contentDetails", "snippet", "thumbnails", "statistics"}

VideoPool ==
    IF Concurrent
    THEN {Video("none", PT20M, StartTime, "c1"),
          Video("contentDetails", PT20M, StartTime, "c1")}
    ELSE {Video("none", PT20M, t, "c1") :
             t \in {StartTime - Hour - 1, StartTime - Hour, InvalidDate}}
         \cup {Video("none", PT21M, StartTime, "c1"),
               Video("none", PT1M, StartTime, "c2"),
               Video("none", P1D, StartTime, "c2")}
         \cup {Video(m, PT1M, StartTime, "c2") : m \in MissingParts}

\* videoDetailsResponse.data.items; the i-th item carries id i.
DetailResponses ==
    {[i \in 1..Len(s) |-> [id |-> i] @@ s[i]] :
        s \in SeqsUpTo(VideoPool, IF Concurrent THEN 1 ELSE MaxItems)}

\* channelsResponse.data.items, as the map it is folded into: channel id ->
\* parseInt(statistics.subscriberCount, 10), NaN when the count is hidden.
\* The upstream answers for some of the ids it was asked for (an entry for
\* any other id is never looked up).
ChannelResponses(asked) ==
    IF Concurrent
    THEN {<<>>, [c \in {"c1"} |-> 1000]}
    ELSE UNION {[S -> {999, 1000, NaN}] : S \in SUBSET asked}

\* ------------------------------------------------------------- the handler

\* const { maxDuration = 1200, minSubscribers = 1000, lastHours = null } = req.query
MaxDurationOf(q) ==
    IF q.maxDuration = Unset THEN DefaultMaxDuration ELSE q.maxDuration

MinSubscribersOf(q) ==
    IF q.minSubscribers = Unset THEN DefaultMinSubscribers ELSE q.minSubscribers

\* if (lastHours): a query string that is present is truthy unless it is empty.
LastHoursGiven(q) == q.lastHours # Unset

\* d.setHours(d.getHours() - parseInt(lastHours)) on a Date holding instant t.
\* An hour count of NaN yields an Invalid Date.
HoursBefore(t, q) ==
    IF q.lastHours = NaN THEN InvalidDate ELSE t - q.lastHours * Hour

\* a < b on two Dates: false as soon as either is an Invalid Date.
DateLess(a, b) == a # InvalidDate /\ b # InvalidDate /\ a < b

\* Lines 44-49 throw (toISOString of an Invalid Date is a RangeError).
PublishedAfterThrows(q) ==
    LastHoursGiven(q) /\ HoursBefore(0, q) = InvalidDate

\* Mutant of VideoIdsEmpty: the test is made on the items array itself
\* (`if (!items)`), which is truthy even when empty.
VideoIdsEmptyTestsArray(items) == FALSE

\* const videoIds = items.map(item => item.id.videoId).join(','); an absent
\* id joins as the empty string, so the joined string is empty exactly when
\* there is no item or a single item without an id.
VideoIdsEmpty(items) ==
    Len(items) = 0 \/ (Len(items) = 1 /\ items[1] = Absent)

\* The template literals of the three messages.
MsgNoVideos == "No videos found in the last ${lastHours} hours"

MsgNoSubscribers ==
    "No videos found in the last ${lastHours} hours with ${minSubscribers}+ subscribers"

\* Lines 63-69: the envelope of the empty-search return.
EmptySearchEnvelope ==
    [status |-> 200, videos |-> <<>>, nextPageToken |-> JsonNull,
     pageInfo |-> [totalResults |-> 0, resultsPerPage |-> 0],
     totalResults |-> 0, message |-> MsgNoVideos]

\* searchResponse.data.nextPageToken || null
TokenOrNull(tok) == IF tok = Absent \/ tok = "" THEN JsonNull ELSE tok

\* Mutant of Envelope: pageInfo is recomputed from the filtered list.
EnvelopeRecounted(videos, search, emptyMessage) ==
    [status |-> 200, videos |-> videos,
     nextPageToken |-> TokenOrNull(search.nextPageToken),
     pageInfo |-> [totalResults |-> Len(videos), resultsPerPage |-> Len(videos)],
     totalResults |-> Len(videos),
     message |-> IF Len(videos) = 0 THEN emptyMessage ELSE JsonNull]

\* Mutant of Envelope: totalResults is copied from the search's pageInfo.
EnvelopeSearchTotal(videos, search, emptyMessage) ==
    [status |-> 200, videos |-> videos,
     nextPageToken |-> TokenOrNull(search.nextPageToken),
     pageInfo |-> search.pageInfo,
     totalResults |-> search.pageInfo.totalResults,
     message |-> IF Len(videos) = 0 THEN emptyMessage ELSE JsonNull]

\* Lines 136-142 and 170-176: the envelope built from a video list.
Envelope(videos, search, emptyMessage) ==
    [status |-> 200, videos |-> videos,
     nextPageToken |-> TokenOrNull(search.nextPageToken),
     pageInfo |-> search.pageInfo,
     totalResults |-> Len(videos),
     message |-> IF Len(videos) = 0 THEN emptyMessage ELSE JsonNull]

\* Lines 180-184: the body of the catch block's response.
ErrorBody ==
    [status |-> 500, error |-> "Failed to fetch videos", message |-> "error.message"]

\* Lines 86-129, the body of the forEach callback for one video, clock reading
\* t: "threw" (caught by the inner catch), "skipped" (returned or fell through
\* without pushing) or "kept" with the entry pushed onto filteredVideos.
ProcessVideo(video, q, t) ==
    IF video.missing = "contentDetails" THEN [outcome |-> "threw"]
    ELSE LET seconds == parseDuration(video.duration) IN
    IF seconds = Null THEN [outcome |-> "skipped"]
    ELSE IF LastHoursGiven(q) /\ video.missing = "snippet" THEN [outcome |-> "threw"]
    ELSE LET includeVideo ==
                ~(LastHoursGiven(q)
                  /\ DateLess(video.publishedAt, HoursBefore(t, q))) IN
    IF ~(seconds <= MaxDurationOf(q) /\ includeVideo) THEN [outcome |-> "skipped"]
    ELSE IF video.missing \in {"snippet", "thumbnails", "statistics"}
    THEN [outcome |-> "threw"]
    ELSE [outcome |-> "kept",
          entry |-> [id |-> video.id, channelId |-> video.channelId,
                     publishedAt |-> video.publishedAt,
                     duration |-> video.duration, durationSeconds |-> seconds]]

\* Mutant of ForEachStep: the try/catch is around the loop's bookkeeping, so a
\* video that throws discards what the pass had kept so far.
ForEachStepDiscarding(acc, video, q, t) ==
    LET r == ProcessVideo(video, q, t) IN
    IF r.outcome = "kept"
    THEN [videos |-> Append(acc.videos, r.entry),
          channels |-> acc.channels \cup {r.entry.channelId}]
    ELSE IF r.outcome = "threw" THEN [videos |-> <<>>, channels |-> {}]
    ELSE acc

\* What one iteration of the forEach does to (filteredVideos, channelIds).
ForEachStep(acc, video, q, t) ==
    LET r == ProcessVideo(video, q, t) IN
    IF r.outcome = "kept"
    THEN [videos |-> Append(acc.videos, r.entry),
          channels |-> acc.channels \cup {r.entry.channelId}]
    ELSE acc

\* Lines 82-130: videoDetailsResponse.data.items.forEach(...) over items[1..n].
RECURSIVE DurationPass(_, _, _, _)
DurationPass(items, n, q, t) ==
    IF n = 0 THEN [videos |-> <<>>, channels |-> {}]
    ELSE ForEachStep(DurationPass(items, n - 1, q, t), items[n], q, t)

\* Mutant of SubscriberCount: a channel the response does not mention is
\* given the default threshold instead of 0.
SubscriberCountUnknownPasses(channels, channelId) ==
    IF channelId \in DOMAIN channels /\ channels[channelId] # NaN
    THEN channels[channelId]
    ELSE DefaultMinSubscribers

\* channelSubscribers[video.channelId] || 0
SubscriberCount(channels, channelId) ==
    IF channelId \in DOMAIN channels /\ channels[channelId] # NaN
    THEN channels[channelId]
    ELSE 0

\* Line 163: every video of filteredVideos gets its subscriberCount attached.
RECURSIVE Annotate(_, _)
Annotate(videos, channels) ==
    IF videos = <<>> THEN <<>>
    ELSE <<[subscriberCount |-> SubscriberCount(channels, Head(videos).channelId)]
             @@ Head(videos)>>
         \o Annotate(Tail(videos), channels)

\* Mutant of PassesSubscribers: the threshold is not applied.
PassesSubscribersAnyCount(video, q) == video.subscriberCount >= 0

\* Line 164: return subscriberCount >= minSubscribers
PassesSubscribers(video, q) == video.subscriberCount >= MinSubscribersOf(q)

\* Lines 161-165: filteredVideos.filter(...)
SubscriberPass(videos, channels, q) ==
    SelectSeq(Annotate(videos, channels), LAMBDA v : PassesSubscribers(v, q))

\* Mutant of NoChannelsToCheck: `channelIds.length === 0` on a Set, which is
\* never true.
NoChannelsToCheckByLength(channels) == FALSE

\* Line 135: if (channelIds.size === 0)
NoChannelsToCheck(channels) == Cardinality(channels) = 0

Event(call, what) == [call |-> call, event |-> what]

\* Mutant of CatchResponse: the error body carries the videos kept so far.
CatchResponseWithVideos(r) ==
    [videos |-> filteredVideos[r]] @@ ErrorBody

\* What the catch block of lines 178-185 sends.
CatchResponse(r) == ErrorBody

\* Lines 21-52: the handler runs up to the first await.
Receive(r) ==
    /\ pc[r] = "idle"
    /\ \E q \in Queries :
        /\ query' = [query EXCEPT ![r] = q]
        /\ started' = [started EXCEPT ![r] = now]
        /\ IF PublishedAfterThrows(q)
           THEN /\ responses' = [responses EXCEPT ![r] = Append(@, CatchResponse(r))]
                /\ log' = [log EXCEPT ![r] = Append(@, Event("res", "json"))]
                /\ pc' = [pc EXCEPT ![r] = "done"]
           ELSE /\ log' = [log EXCEPT ![r] = Append(@, Event("search", "issued"))]
                /\ pc' = [pc EXCEPT ![r] = "search"]
                /\ UNCHANGED responses
    /\ UNCHANGED <<now, searchData, detailItems, processedAt, filteredVideos,
                   channelIds, channelData, parseIn, parseOut>>

\* Lines 52-79: the search call resolves; the handler runs to the second await
\* or to the empty-search return.
SearchFulfilled(r) ==
    /\ pc[r] = "search"
    /\ \E data \in SearchResponses :
        /\ searchData' = [searchData EXCEPT ![r] = data]
        /\ IF VideoIdsEmpty(data.items)
           THEN /\ responses' = [responses EXCEPT ![r] = Append(@, EmptySearchEnvelope)]
                /\ log' = [log EXCEPT ![r] =
                             @ \o <<Event("search", "fulfilled"), Event("res", "json")>>]
                /\ pc' = [pc EXCEPT ![r] = "done"]
           ELSE /\ log' = [log EXCEPT ![r] =
                             @ \o <<Event("search", "fulfilled"), Event("videos", "issued")>>]
                /\ pc' = [pc EXCEPT ![r] = "videos"]
                /\ UNCHANGED responses
    /\ UNCHANGED <<now, query, started, detailItems, processedAt, filteredVideos,
                   channelIds, channelData, parseIn, parseOut>>

\* Lines 73-152: the video-details call resolves; the handler runs the
\* duration/recency pass and then returns or issues the channels call.
DetailsFulfilled(r) ==
    /\ pc[r] = "videos"
    /\ \E items \in DetailResponses :
        LET pass == DurationPass(items, Len(items), query[r], now) IN
        /\ detailItems' = [detailItems EXCEPT ![r] = items]
        /\ processedAt' = [processedAt EXCEPT ![r] = now]
        /\ filteredVideos' = [filteredVideos EXCEPT ![r] = pass.videos]
        /\ channelIds' = [channelIds EXCEPT ![r] = pass.channels]
        /\ IF NoChannelsToCheck(pass.channels)
           THEN /\ responses' = [responses EXCEPT ![r] =
                        Append(@, Envelope(pass.videos, searchData[r], MsgNoVideos))]
                /\ log' = [log EXCEPT ![r] =
                             @ \o <<Event("videos", "fulfilled"), Event("res", "json")>>]
                /\ pc' = [pc EXCEPT ![r] = "done"]
           ELSE /\ log' = [log EXCEPT ![r] =
                             @ \o <<Event("videos", "fulfilled"), Event("channels", "issued")>>]
                /\ pc' = [pc EXCEPT ![r] = "channels"]
                /\ UNCHANGED responses
    /\ UNCHANGED <<now, query, started, searchData, channelData, parseIn, parseOut>>

\* Lines 146-176: the channels call resolves; the handler runs the subscriber
\* pass and sends the final envelope.
ChannelsFulfilled(r) ==
    /\ pc[r] = "channels"
    /\ \E channels \in ChannelResponses(channelIds[r]) :
        /\ channelData' = [channelData EXCEPT ![r] = channels]
        /\ filteredVideos' = [filteredVideos EXCEPT ![r] = Annotate(@, channels)]
        /\ responses' = [responses EXCEPT ![r] =
                Append(@, Envelope(SubscriberPass(filteredVideos[r], channels, query[r]),
                                   searchData[r], MsgNoSubscribers))]
    /\ log' = [log EXCEPT ![r] =
                 @ \o <<Event("channels", "fulfilled"), Event("res", "json")>>]
    /\ pc' = [pc EXCEPT ![r] = "done"]
    /\ UNCHANGED <<now, query, started, searchData, detailItems, processedAt,
                   channelIds, parseIn, parseOut>>

\* Lines 178-185: the awaited call rejects (network error, quota, or a body
\* without data.items); the catch block answers 500.
UpstreamRejected(r) ==
    /\ pc[r] \in {"search", "videos", "channels"}
    /\ responses' = [responses EXCEPT ![r] = Append(@, CatchResponse(r))]
    /\ log' = [log EXCEPT ![r] = @ \o <<Event(pc[r], "rejected"), Event("res", "json")>>]
    /\ pc' = [pc EXCEPT ![r] = "done"]
    /\ UNCHANGED <<now, query, started, searchData, detailItems, processedAt,
                   filteredVideos, channelIds, channelData, parseIn, parseOut>>

\* The wall clock advances.  Its readings matter up to the last recency check,
\* so it is followed while some request has still to run its own.
Tick ==
    /\ now < StartTime + MaxTicks
    /\ \E r \in DOMAIN pc : pc[r] \in {"idle", "search", "videos"}
    /\ now' = now + 1
    /\ UNCHANGED <<pc, query, started, searchData, detailItems, processedAt,
                   filteredVideos, channelIds, channelData, responses, log,
                   parseIn, parseOut>>

\* State of the process before any request has arrived, for request ids R.
InitFor(R) ==
    /\ now = StartTime
    /\ pc = [r \in R |-> "idle"]
    /\ query = [r \in R |-> [maxDuration |-> Unset, minSubscribers |-> Unset,
                             lastHours |-> Unset]]
    /\ started = [r \in R |-> StartTime]
    /\ searchData = [r \in R |-> [items |-> <<>>, nextPageToken |-> Absent,
                                  pageInfo |-> [totalResults |-> 0, resultsPerPage |-> 0]]]
    /\ detailItems = [r \in R |-> <<>>]
    /\ processedAt = [r \in R |-> StartTime]
    /\ filteredVideos = [r \in R |-> <<>>]
    /\ channelIds = [r \in R |-> {}]
    /\ channelData = [r \in R |-> <<>>]
    /\ responses = [r \in R |-> <<>>]
    /\ log = [r \in R |-> <<>>]
    /\ parseOut = <<>>

Init == InitFor({1}) /\ parseIn = NullDuration

Next ==
    \/ \E r \in DOMAIN pc : Receive(r)
    \/ \E r \in DOMAIN pc : SearchFulfilled(r)
    \/ \E r \in DOMAIN pc : DetailsFulfilled(r)
    \/ \E r \in DOMAIN pc : ChannelsFulfilled(r)
    \/ \E r \in DOMAIN pc : UpstreamRejected(r)
    \/ Tick

\* One request at a time, the full input domains.
Spec == Init /\ [][Next]_vars

InitConcurrent == InitFor({1, 2}) /\ parseIn = NullDuration

\* Two requests whose handlers interleave at the awaits.
SpecConcurrent == InitConcurrent /\ [][Next]_vars

\* ------------------------------------------------- parseDuration on its own

\* Characters the enumerated duration tokens are made of.
Alphabet == {"P", "T", "H", "M", "S", "1", "x"}

\* The tokens of section 8 of the specification.
PT1H2M3S == <<"P", "T", "1", "H", "2", "M", "3", "S">>
PT45M    == <<"P", "T", "4", "5", "M">>
PT30S    == <<"P", "T", "3", "0", "S">>
PT       == <<"P", "T">>

\* Arguments handed to parseDuration: null, every string over Alphabet of at
\* most MaxLen characters (the empty string among them), and the named tokens.
DurationArguments ==
    SeqsUpTo(Alphabet, MaxLen)
    \cup {NullDuration, PT1H2M3S, PT45M, PT30S, PT, PT1M, PT20M, PT21M, P1D}

InitParse ==
    /\ InitFor({1})
    /\ parseIn \in DurationArguments

\* A call parseDuration(parseIn) returns.
ParseStep ==
    /\ parseOut = <<>>
    /\ parseOut' = <<parseDuration(parseIn)>>
    /\ UNCHANGED <<now, pc, query, started, searchData, detailItems, processedAt,
                   filteredVideos, channelIds, channelData, responses, log, parseIn>>

NextParse == ParseStep

\* parseDuration applied once to an arbitrary argument.
SpecParse == InitParse /\ [][NextParse]_vars

\* ------------------------------------------------------ vocabulary of claims

Requests == DOMAIN pc

\* The log of request r holds the event (call, what).
Logged(r, call, what) ==
    \E i \in 1..Len(log[r]) : log[r][i] = Event(call, what)

\* Positions of the log of request r holding the event (call, what).
LogPositions(r, call, what) ==
    {i \in 1..Len(log[r]) : log[r][i] = Event(call, what)}

\* Request r has been answered with status 200.
Answered200(r) == Len(responses[r]) >= 1 /\ responses[r][1].status = 200

\* Request r has been answered with status 500.
Answered500(r) == Len(responses[r]) >= 1 /\ responses[r][1].status = 500

\* The body request r was answered with.
Body(r) == responses[r][1]

\* The ids of the videos of a list.
IdsOf(videos) == {videos[i].id : i \in 1..Len(videos)}

Calls == {"search", "videos", "channels"}

\* Some upstream call of request r was rejected.
SomeCallRejected(r) == \E c \in Calls : Logged(r, c, "rejected")

\* ------------------------------------------------------------------- C1

\* C1: every video of a 200 response has durationSeconds <= maxDuration and
\* subscriberCount >= minSubscribers, the two thresholds taken from the
\* request and defaulting to 1200 and 1000.
C1_ReturnedVideosMeetThresholds ==
    \A r \in Requests :
        Answered200(r) =>
            \A i \in 1..Len(Body(r).videos) :
                LET v == Body(r).videos[i] IN
                /\ v.durationSeconds <= MaxDurationOf(query[r])
                /\ "subscriberCount" \in DOMAIN v
                /\ v.subscriberCount >= MinSubscribersOf(query[r])

\* A 200 response that returns a video while a filter removed another one of
\* the same batch.
C1_Witness ==
    \E r \in Requests :
        /\ Answered200(r)
        /\ Len(Body(r).videos) >= 1
        /\ Len(detailItems[r]) > Len(Body(r).videos)

\* ------------------------------------------------------------------- C2

\* The item is well formed and short enough: only the recency check can
\* keep it out of filteredVideos.
OnlyRecencyDecides(video, q) ==
    /\ video.missing = "none"
    /\ parseDuration(video.duration) # Null
    /\ parseDuration(video.duration) <= MaxDurationOf(q)

\* C2: with lastHours supplied, every video of the 200 response has a
\* publishedAt at or after (request time - lastHours hours), and a video
\* published exactly at that cutoff is kept by the recency check.
C2_RecencyAgainstRequestTime ==
    \A r \in Requests :
        (LastHoursGiven(query[r]) /\ query[r].lastHours # NaN) =>
            LET cutoff == started[r] - query[r].lastHours * Hour IN
            /\ Answered200(r) =>
                 \A i \in 1..Len(Body(r).videos) :
                    /\ Body(r).videos[i].publishedAt # InvalidDate
                    /\ Body(r).videos[i].publishedAt >= cutoff
            /\ Logged(r, "videos", "fulfilled") =>
                 \A i \in 1..Len(detailItems[r]) :
                    (OnlyRecencyDecides(detailItems[r][i], query[r])
                     /\ detailItems[r][i].publishedAt = cutoff)
                        => detailItems[r][i].id \in IdsOf(filteredVideos[r])

\* ------------------------------------------------------------------- C3

\* C3: when the search returns zero items the request is answered 200 with an
\* empty videos list, totalResults 0 and a non-null message, and neither the
\* video-details call nor the channels call is ever issued.
C3_EmptySearchShortCircuits ==
    \A r \in Requests :
        (Logged(r, "search", "fulfilled") /\ Len(searchData[r].items) = 0) =>
            /\ pc[r] = "done"
            /\ Len(responses[r]) = 1
            /\ Answered200(r)
            /\ Body(r).videos = <<>>
            /\ Body(r).totalResults = 0
            /\ Body(r).message # JsonNull
            /\ ~Logged(r, "videos", "issued")
            /\ ~Logged(r, "channels", "issued")

\* A search that returned no item has been answered.
C3_Witness ==
    \E r \in Requests :
        /\ Logged(r, "search", "fulfilled")
        /\ Len(searchData[r].items) = 0
        /\ Answered200(r)

\* ------------------------------------------------------------------- C4

\* C4: once one of the three upstream calls has failed, the request has been
\* answered exactly once, with status 500, an error field and no videos
\* field, and no call was issued a second time.
C4_UpstreamFailureAnswers500 ==
    \A r \in Requests :
        SomeCallRejected(r) =>
            /\ pc[r] = "done"
            /\ Len(responses[r]) = 1
            /\ Answered500(r)
            /\ "error" \in DOMAIN Body(r)
            /\ "videos" \notin DOMAIN Body(r)
            /\ \A c \in Calls : Cardinality(LogPositions(r, c, "issued")) <= 1

\* The channels call failed after videos had passed the duration/recency pass.
C4_Witness ==
    \E r \in Requests :
        /\ Logged(r, "channels", "rejected")
        /\ Len(filteredVideos[r]) >= 1
        /\ Answered500(r)

\* ------------------------------------------------------------------- C5

\* C5: a video that passed the duration/recency pass and whose channel id is
\* absent from the channels response gets subscriberCount 0; it is left out
\* of the returned list when minSubscribers > 0 and is returned, with
\* subscriberCount 0, when minSubscribers is 0.
C5_AbsentChannelCountsZero ==
    \A r \in Requests :
        Logged(r, "channels", "fulfilled") =>
            \A i \in 1..Len(filteredVideos[r]) :
                LET v == filteredVideos[r][i] IN
                v.channelId \notin DOMAIN channelData[r] =>
                    /\ v.subscriberCount = 0
                    /\ MinSubscribersOf(query[r]) > 0
                         => v.id \notin IdsOf(Body(r).videos)
                    /\ MinSubscribersOf(query[r]) = 0
                         => \E j \in 1..Len(Body(r).videos) :
                               /\ Body(r).videos[j].id = v.id
                               /\ Body(r).videos[j].subscriberCount = 0

\* With minSubscribers > 0, a response that returns one video and leaves out
\* another whose channel the channels response did not mention.
C5_Witness ==
    \E r \in Requests :
        /\ Logged(r, "channels", "fulfilled")
        /\ MinSubscribersOf(query[r]) > 0
        /\ Len(Body(r).videos) >= 1
        /\ \E i \in 1..Len(filteredVideos[r]) :
              filteredVideos[r][i].channelId \notin DOMAIN channelData[r]

\* ------------------------------------------------------------------- C6

\* d[a..b] is empty, or one or more digits followed by the unit letter.
IsComponent(d, a, b, unit) ==
    \/ b = a - 1
    \/ /\ b > a
       /\ d[b] = unit
       /\ \A k \in a..(b - 1) : d[k] \in Digits

ComponentValue(d, a, b) == IF b < a THEN 0 ELSE ParseIntRun(d, a, b - 1)

\* The reference parser: the whole token is PT, then an optional <n>H, an
\* optional <n>M and an optional <n>S in that order; anything else is null.
ReferenceParse(d) ==
    IF d = NullDuration \/ Len(d) < 2 THEN Null
    ELSE IF d[1] # "P" \/ d[2] # "T" THEN Null
    ELSE LET splits == {ij \in (2..Len(d)) \X (2..Len(d)) :
                           /\ ij[1] <= ij[2]
                           /\ IsComponent(d, 3, ij[1], "H")
                           /\ IsComponent(d, ij[1] + 1, ij[2], "M")
                           /\ IsComponent(d, ij[2] + 1, Len(d), "S")}
         IN IF splits = {} THEN Null
            ELSE LET ij == CHOOSE x \in splits : TRUE IN
                 ComponentValue(d, 3, ij[1]) * 3600
                 + ComponentValue(d, ij[1] + 1, ij[2]) * 60
                 + ComponentValue(d, ij[2] + 1, Len(d))

\* C6: parseDuration agrees with the reference parser on every argument: the
\* sum of the components for a token of the PT form, null for anything else.
C6_AgreesWithReferenceParser ==
    parseOut # <<>> => parseOut[1] = ReferenceParse(parseIn)

\* ------------------------------------------------------------------- C7

\* Processing this item fails: its duration cannot be parsed, or reading a
\* field of a missing sub-object throws.
ProcessingFails(video, q, t) ==
    \/ ProcessVideo(video, q, t).outcome = "threw"
    \/ (video.missing # "contentDetails" /\ parseDuration(video.duration) = Null)

\* The batch of request r without the items whose processing failed.
WithoutFailures(r) ==
    SelectSeq(detailItems[r],
              LAMBDA v : ~ProcessingFails(v, query[r], processedAt[r]))

\* C7: a processing failure on one video drops only that video.  The failure
\* does not turn the answer into a 500, and the list kept by the
\* duration/recency pass, the channel ids collected and the videos returned
\* are those of the same batch without the failing videos.
C7_FailureDropsOnlyThatVideo ==
    \A r \in Requests :
        Logged(r, "videos", "fulfilled") =>
            LET good == WithoutFailures(r)
                expected == DurationPass(good, Len(good), query[r], processedAt[r])
            IN
            /\ channelIds[r] = expected.channels
            /\ IF Logged(r, "channels", "fulfilled")
               THEN /\ filteredVideos[r] = Annotate(expected.videos, channelData[r])
                    /\ Answered200(r)
                    /\ Body(r).videos =
                         SubscriberPass(expected.videos, channelData[r], query[r])
               ELSE /\ filteredVideos[r] = expected.videos
                    /\ (pc[r] = "done" /\ ~SomeCallRejected(r)) =>
                         (Answered200(r) /\ Body(r).videos = expected.videos)

\* A batch with a failing video and another video, which is returned.
C7_Witness ==
    \E r \in Requests :
        /\ Answered200(r)
        /\ Len(Body(r).videos) >= 1
        /\ \E i \in 1..Len(detailItems[r]) :
              ProcessingFails(detailItems[r][i], query[r], processedAt[r])

\* ------------------------------------------------------------------- C8

\* Request r was answered 200 on one of the two return paths that follow a
\* non-empty search.
AnsweredAfterDetails(r) == Answered200(r) /\ Logged(r, "videos", "fulfilled")

IssuePositions(r) ==
    {i \in 1..Len(log[r]) : log[r][i].event = "issued"}

\* The call issued at position i has settled before position j.
SettledBefore(r, i, j) ==
    \E k \in (i + 1)..(j - 1) :
        /\ log[r][k].call = log[r][i].call
        /\ log[r][k].event \in {"fulfilled", "rejected"}

\* C9: for each request, whatever the other requests do, each upstream call
\* is issued at most once; a call is issued only when every call issued
\* before it has settled; the video-details call follows a successful search
\* and the channels call a successful video-details call that left at least
\* one video; nothing is issued once the response has been sent.
C9_CallsSequentialAtMostOnce ==
    \A r \in Requests :
        /\ \A c \in Calls : Cardinality(LogPositions(r, c, "issued")) <= 1
        /\ \A i, j \in IssuePositions(r) : i < j => SettledBefore(r, i, j)
        /\ \A j \in LogPositions(r, "videos", "issued") :
              \E i \in LogPositions(r, "search", "fulfilled") : i < j
        /\ \A j \in LogPositions(r, "channels", "issued") :
              /\ \E i \in LogPositions(r, "videos", "fulfilled") : i < j
              /\ Len(filteredVideos[r]) >= 1
        /\ \A i \in LogPositions(r, "res", "json") :
              \A j \in IssuePositions(r) : j < i
        /\ Len(responses[r]) <= 1

\* Two requests in flight at the same time, at different stages of the
\* pipeline.
C9_Witness ==
    \E r, o \in Requests :
        /\ r # o
        /\ pc[r] = "channels"
        /\ pc[o] = "videos"

\* ------------------------------------------------------------------ C10

\* Request r was answered without any upstream call failing and without the
\* handler throwing before the search.
NothingFailed(r) ==
    /\ pc[r] = "done"
    /\ ~SomeCallRejected(r)
    /\ ~PublishedAfterThrows(query[r])

\* C10: every 200 response has totalResults equal to the length of videos and
\* a non-null message exactly when videos is empty; a request in which no
\* upstream call failed is answered 200, however few videos are left.
C10_TotalsAndMessage ==
    \A r \in Requests :
        /\ Answered200(r) =>
              /\ Body(r).totalResults = Len(Body(r).videos)
              /\ (Body(r).message # JsonNull) <=> (Len(Body(r).videos) = 0)
        /\ NothingFailed(r) => Answered200(r)

\* The subscriber pass removed every video that was left: a 200 with an
\* empty list and a message.
C10_Witness ==
    \E r \in Requests :
        /\ Answered200(r)
        /\ Logged(r, "channels", "fulfilled")
        /\ Len(filteredVideos[r]) >= 1
        /\ Body(r).videos = <<>>
        /\ Body(r).message # JsonNull

====
